---- MODULE Spec2Model ----
(***************************************************************************)
(* Model of the HVAC digital twin: the lumped-parameter physics            *)
(* (hvac_sim/physics.py), the stateful Euler integrator                    *)
(* (hvac_sim/simulator.py), the batch runner (hvac_sim/simulate.py), the   *)
(* parameter set (hvac_sim/parameters.py), the ingestion path and readers  *)
(* of the bounded history (dashboard.py, mqtt_integration/client.py) and   *)
(* the setpoint feedback path (publisher_test.py).                         *)
(*                                                                         *)
(* Numbers.  The program computes in binary floating point.  The model     *)
(* computes in decimal fixed point: every quantity is an integer count of  *)
(* a fixed unit, and every division rounds to the nearest unit (ties to    *)
(* even), as a floating-point division rounds to the nearest value.        *)
(*   temperatures, setpoints          1e-3 K      (18.0 C  = 18000)        *)
(*   CO2 concentrations               1e-3 ppm    (600 ppm = 600000)       *)
(*   numbers carried by a payload     1e-3 of their unit                   *)
(*   heat flows and powers            1e-3 kW = 1 W                        *)
(*   cumulative energy                1e-3 kWh                             *)
(*   temperature / CO2 derivatives    1e-6 K/s, 1e-6 ppm/s                 *)
(*   R_oa, R_wz, R_ow, COP*, ACH, m_air_des   1e-1 of their unit           *)
(*   c_p, E_occ                       1e-3 of their unit                   *)
(*   C_z, C_w, V, dt_s                their unit                           *)
(***************************************************************************)
EXTENDS Integers, Sequences, FiniteSets, TLC

(***************************************************************************)
(* Bounds of the model.                                                    *)
(***************************************************************************)
\* messages the inbound sensor channel delivers in one run
MaxMsgs == 3
\* concurrent update_graph_live callbacks
NumReaders == 2
\* capacity of data_deque (288 in dashboard.py, scaled down)
maxlen == 2
\* direct calls of HVACSimulator.step in the physics specification
MaxSteps == 3
\* sensor events the publisher publishes in one run
MaxPub == 2
\* setpoint messages sent on the control topic in one run
MaxCtl == 2
\* steps of a run under constant inputs in the equilibrium specification
MaxEqSteps == 70
\* rows of the input frame given to run_simulation
MaxRows == 3

VARIABLES
    sim,              \* the HVACSimulator object: state, params, dt_s, cumulative_energy_kwh
    data_deque,       \* dashboard.data_deque, oldest first
    lock,             \* dashboard.lock: whether it is locked, and the thread that locked it
    pc,               \* position of every dashboard thread (0: MQTT loop thread, 1..NumReaders: readers)
    msg_dict,         \* on_sensor_data_received: the decoded message in flight
    inputs,           \* on_sensor_data_received: the inputs dict of the event in flight
    results,          \* on_sensor_data_received: the results dict of the event in flight
    df,               \* update_graph_live: each reader's copy of the history
    fig,              \* update_graph_live: what each reader's call has rendered so far
    escaped,          \* the exception that left on_message uncaught, "none" if none did
    mqtt_client,      \* dashboard.mqtt_client global
    n_clicks,         \* the n_clicks property of the Update Setpoint button
    delivered,        \* history variable: the payloads handed to on_message, in order
    stepLog,          \* history variable: the results of HVACSimulator.step, in call order
    call,             \* history variable: the last direct call of step (its number, the state and energy
                      \* before it, its inputs, what hvac_power returned in it, its results)
    current_setpoint, \* publisher_test.current_setpoint
    data,             \* publisher_test.run: the data dict being published
    ppc,              \* publisher_test.run: position in the loop
    controlChan,      \* control topic: payloads in flight to the publisher
    sensorChan,       \* sensor topic: payloads in flight to the dashboard
    lastParsed,       \* history variable: the last setpoint the publisher parsed (24.0 before any)
    published,        \* history variable: the events the publisher has published
    batch             \* run_simulation: its arguments df_in, p, dt_s and its locals state,
                      \* energy, rec

dashVars == <<sim, data_deque, lock, pc, msg_dict, inputs, results, df, fig, escaped,
              mqtt_client, delivered, stepLog>>
pubVars  == <<n_clicks, current_setpoint, data, ppc, controlChan, sensorChan, lastParsed,
              published>>
vars     == <<sim, data_deque, lock, pc, msg_dict, inputs, results, df, fig, escaped, mqtt_client,
              delivered, stepLog, call, n_clicks, current_setpoint, data, ppc, controlChan,
              sensorChan, lastParsed, published, batch>>

(***************************************************************************)
(* Arithmetic                                                              *)
(***************************************************************************)
Abs(x) ==
    IF x < 0 THEN -x ELSE x

\* a / b for b # 0, rounded to the nearest integer, ties to the even one
RoundDiv(a, b) ==
    LET n == IF b < 0 THEN -a ELSE a
        d == IF b < 0 THEN -b ELSE b
        q == n \div d
        r == n % d
    IN  IF 2 * r < d THEN q
        ELSE IF 2 * r > d THEN q + 1
        ELSE IF q % 2 = 0 THEN q ELSE q + 1

Min(a, b) ==
    IF a < b THEN a ELSE b

(***************************************************************************)
(* hvac_sim/parameters.py                                                  *)
(***************************************************************************)
Params ==
    [R_oa |-> 30, R_wz |-> 16, R_ow |-> 20, C_z |-> 3000, C_w |-> 15000,
     COP |-> 35, P_fan_des |-> 1200, m_air_des |-> 25,
     V |-> 240, ACH |-> 4, E_occ |-> 5, c_p |-> 1006,
     COP_cool |-> 35, COP_heat |-> 30]

C_z_kW(p) ==
    p.C_z

C_w_kW(p) ==
    p.C_w

(***************************************************************************)
(* hvac_sim/physics.py                                                     *)
(***************************************************************************)
\* dict.get(key, default) on the inputs of rhs
Get(inp, key, default) ==
    IF key \in DOMAIN inp THEN inp[key] ELSE default

\* a mutant of hvac_power: the heating branch draws no power
hvac_power_heating_off(T_z, T_set, p) ==
    LET m_air == p.m_air_des
        delta == T_z - T_set
        Q     == RoundDiv(m_air * p.c_p * delta, 10000)
    IN  IF delta > 0 THEN <<Q, RoundDiv(Q * 10, p.COP) + p.P_fan_des>>
        ELSE <<0, 0>>

\* a mutant of hvac_power: the heating branch forgets abs()
hvac_power_no_abs(T_z, T_set, p) ==
    LET m_air == p.m_air_des
        delta == T_z - T_set
        Q     == RoundDiv(m_air * p.c_p * delta, 10000)
    IN  IF delta > 0 THEN <<Q, RoundDiv(Q * 10, p.COP) + p.P_fan_des>>
        ELSE IF delta < 0 THEN <<Q, RoundDiv(Q * 10, p.COP) + p.P_fan_des>>
        ELSE <<0, 0>>

\* returns <<Q, P>>: Q in W (m_air [1e-1] * c_p [1e-3] * delta [1e-3 K] is in 1e-7 kW)
hvac_power(T_z, T_set, p) ==
    LET m_air == p.m_air_des
        delta == T_z - T_set
        Q     == RoundDiv(m_air * p.c_p * delta, 10000)
    IN  IF delta > 0 THEN <<Q, RoundDiv(Q * 10, p.COP) + p.P_fan_des>>
        ELSE IF delta < 0 THEN <<Q, RoundDiv(Abs(Q) * 10, p.COP) + p.P_fan_des>>
        ELSE <<0, 0>>

\* outdoor CO2 baseline, 400.0 ppm
C_out == 400000

\* a mutant of rhs: the infiltration term has the opposite sign
rhs_exfiltration(state, inp, p) ==
    LET T_z      == state[1]
        T_w      == state[2]
        CO2_z    == state[3]
        T_out    == inp["T_out"]
        N_occ    == inp["N_occ"]
        T_set    == inp["T_set"]
        I_sol    == Get(inp, "I_sol", 0)
        Q_int    == Get(inp, "Q_int", 100000 * N_occ)
        hp       == hvac_power(T_z, T_set, p)
        Q_HVAC   == hp[1]
        P_e      == hp[2]
        dTz      == RoundDiv((RoundDiv((T_out - T_z) * 10, p.R_oa)
                              + RoundDiv((T_w - T_z) * 10, p.R_wz)
                              + RoundDiv(Q_int, 1000)
                              - Q_HVAC) * 1000, C_z_kW(p))
        dTw      == RoundDiv((RoundDiv((T_z - T_w) * 10, p.R_wz)
                              + RoundDiv((T_out - T_w) * 10, p.R_ow)
                              + RoundDiv(I_sol, 1000)) * 1000, C_w_kW(p))
        Vdot_inf == RoundDiv(p.ACH * p.V * 10000, 3600)
        E_m3s    == p.E_occ * N_occ
        dCO2     == RoundDiv((RoundDiv(Vdot_inf * (CO2_z - C_out), 100000)
                              + E_m3s * 1000) * 1000, p.V)
    IN  <<dTz, dTw, dCO2, P_e>>

\* a mutant of rhs: the HVAC heat flow is added to the zone's balance
rhs_hvac_added(state, inp, p) ==
    LET T_z      == state[1]
        T_w      == state[2]
        CO2_z    == state[3]
        T_out    == inp["T_out"]
        N_occ    == inp["N_occ"]
        T_set    == inp["T_set"]
        I_sol    == Get(inp, "I_sol", 0)
        Q_int    == Get(inp, "Q_int", 100000 * N_occ)
        hp       == hvac_power(T_z, T_set, p)
        Q_HVAC   == hp[1]
        P_e      == hp[2]
        dTz      == RoundDiv((RoundDiv((T_out - T_z) * 10, p.R_oa)
                              + RoundDiv((T_w - T_z) * 10, p.R_wz)
                              + RoundDiv(Q_int, 1000)
                              + Q_HVAC) * 1000, C_z_kW(p))
        dTw      == RoundDiv((RoundDiv((T_z - T_w) * 10, p.R_wz)
                              + RoundDiv((T_out - T_w) * 10, p.R_ow)
                              + RoundDiv(I_sol, 1000)) * 1000, C_w_kW(p))
        Vdot_inf == RoundDiv(p.ACH * p.V * 10000, 3600)
        E_m3s    == p.E_occ * N_occ
        dCO2     == RoundDiv((RoundDiv(Vdot_inf * (C_out - CO2_z), 100000)
                              + E_m3s * 1000) * 1000, p.V)
    IN  <<dTz, dTw, dCO2, P_e>>

\* returns <<dTz, dTw, dCO2, P_e>>: the derivatives in 1e-6 units per second, P_e in W
rhs(state, inp, p) ==
    LET T_z      == state[1]
        T_w      == state[2]
        CO2_z    == state[3]
        T_out    == inp["T_out"]
        N_occ    == inp["N_occ"]
        T_set    == inp["T_set"]
        I_sol    == Get(inp, "I_sol", 0)
        Q_int    == Get(inp, "Q_int", 100000 * N_occ)
        hp       == hvac_power(T_z, T_set, p)
        Q_HVAC   == hp[1]
        P_e      == hp[2]
        dTz      == RoundDiv((RoundDiv((T_out - T_z) * 10, p.R_oa)
                              + RoundDiv((T_w - T_z) * 10, p.R_wz)
                              + RoundDiv(Q_int, 1000)
                              - Q_HVAC) * 1000, C_z_kW(p))
        dTw      == RoundDiv((RoundDiv((T_z - T_w) * 10, p.R_wz)
                              + RoundDiv((T_out - T_w) * 10, p.R_ow)
                              + RoundDiv(I_sol, 1000)) * 1000, C_w_kW(p))
        \* ACH [1e-1 /h] * V [m3] / 3600, in 1e-5 m3/s
        Vdot_inf == RoundDiv(p.ACH * p.V * 10000, 3600)
        \* E_occ [1e-3 L/s] * N_occ / 1000, in 1e-6 m3/s
        E_m3s    == p.E_occ * N_occ
        dCO2     == RoundDiv((RoundDiv(Vdot_inf * (C_out - CO2_z), 100000)
                              + E_m3s * 1000) * 1000, p.V)
    IN  <<dTz, dTw, dCO2, P_e>>

(***************************************************************************)
(* hvac_sim/simulator.py                                                   *)
(***************************************************************************)
\* HVACSimulator.__init__
HVACSimulator(initial_state, params, dt) ==
    [state |-> initial_state, params |-> params, dt_s |-> dt, cumulative_energy_kwh |-> 0]

\* run_simulation has not been called
NoBatch ==
    [df_in |-> <<>>, p |-> Params, dt_s |-> 0, state |-> <<0, 0, 0>>, energy |-> 0,
     rec |-> <<>>]

\* the name hvac_sim before the constructor has run
NoSim ==
    [state |-> <<>>, params |-> Params, dt_s |-> 0, cumulative_energy_kwh |-> 0]

\* a mutant of step: the power is read from the derivatives at the updated state
step_power_after(s, inp) ==
    LET deriv    == rhs(s.state, inp, s.params)
        newState == [i \in 1..3 |-> s.state[i] + RoundDiv(deriv[i] * s.dt_s, 1000)]
        power_kw == rhs(newState, inp, s.params)[4]
        newCum   == s.cumulative_energy_kwh + RoundDiv(power_kw * s.dt_s, 3600)
    IN  [sim     |-> [s EXCEPT !.state = newState, !.cumulative_energy_kwh = newCum],
         results |-> [T_z |-> newState[1], T_w |-> newState[2], CO2_z |-> newState[3],
                      P_e |-> power_kw, E_KWh_cumulative |-> newCum]]

\* HVACSimulator.step: the simulator after the call and the dict it returns
step(s, inp) ==
    LET deriv    == rhs(s.state, inp, s.params)
        newState == [i \in 1..3 |-> s.state[i] + RoundDiv(deriv[i] * s.dt_s, 1000)]
        power_kw == deriv[4]
        newCum   == s.cumulative_energy_kwh + RoundDiv(power_kw * s.dt_s, 3600)
    IN  [sim     |-> [s EXCEPT !.state = newState, !.cumulative_energy_kwh = newCum],
         results |-> [T_z |-> newState[1], T_w |-> newState[2], CO2_z |-> newState[3],
                      P_e |-> power_kw, E_KWh_cumulative |-> newCum]]

(***************************************************************************)
(* JSON payloads and Python's conversions                                  *)
(***************************************************************************)
Keys == {"T_out", "N_occ", "T_set", "I_sol"}

\* JSON values: a number, a string spelling a number, any other string, null, a list
Num(v)    == [t |-> "num", v |-> v]
NumStr(v) == [t |-> "numstr", v |-> v]
BadStr    == [t |-> "badstr", v |-> 0]
Null      == [t |-> "null", v |-> 0]
List      == [t |-> "list", v |-> 0]
\* the key is not in the object
Absent    == [t |-> "absent", v |-> 0]

\* a JSON object holding the given members (a record) and no other key
Object(members) ==
    [json |-> "object",
     d    |-> [k \in Keys |-> IF k \in DOMAIN members THEN members[k] ELSE Absent]]

\* a payload that is valid JSON but no object, and one that is not JSON
ArrayPayload   == [json |-> "array", d |-> [k \in Keys |-> Absent]]
InvalidPayload == [json |-> "invalid", d |-> [k \in Keys |-> Absent]]
NoMsg          == [json |-> "none", d |-> [k \in Keys |-> Absent]]

Ok(v)      == [exc |-> "none", v |-> v]
Raise(exc) == [exc |-> exc, v |-> 0]

\* json.loads(msg.payload)
json_loads(payload) ==
    IF payload.json = "invalid" THEN [exc |-> "JSONDecodeError", val |-> NoMsg]
    ELSE [exc |-> "none", val |-> payload]

\* msg_dict[key]
Subscript(m, key) ==
    IF m.json # "object" THEN Raise("TypeError")
    ELSE IF m.d[key].t = "absent" THEN Raise("KeyError")
    ELSE Ok(m.d[key])

\* float(x)
PyFloat(x) ==
    CASE x.t \in {"num", "numstr"} -> Ok(x.v)
      [] x.t = "badstr"            -> Raise("ValueError")
      [] OTHER                     -> Raise("TypeError")

\* int(x): a number is truncated toward zero; a string must spell an integer
PyInt(x) ==
    CASE x.t = "num"    -> Ok(IF x.v >= 0 THEN x.v \div 1000 ELSE -((-x.v) \div 1000))
      [] x.t = "numstr" -> IF x.v % 1000 = 0 THEN Ok(x.v \div 1000) ELSE Raise("ValueError")
      [] x.t = "badstr" -> Raise("ValueError")
      [] OTHER          -> Raise("TypeError")

\* int(msg_dict[key])
IntOf(m, key) ==
    LET x == Subscript(m, key)
    IN  IF x.exc # "none" THEN x ELSE PyInt(x.v)

\* float(msg_dict[key])
FloatOf(m, key) ==
    LET x == Subscript(m, key)
    IN  IF x.exc # "none" THEN x ELSE PyFloat(x.v)

\* float(msg_dict.get(key, 0.0))
FloatOfGet(m, key) ==
    IF m.d[key].t = "absent" THEN Ok(0) ELSE PyFloat(m.d[key])

NoInputs == [T_out |-> 0, N_occ |-> 0, T_set |-> 0, I_sol |-> 0]

\* dashboard.py lines 37-43: the conversions in the order Python evaluates them; the
\* first exception raised ends the evaluation
BuildInputs(m) ==
    LET n  == IntOf(m, "N_occ")
        to == FloatOf(m, "T_out")
        ts == FloatOf(m, "T_set")
        is == FloatOfGet(m, "I_sol")
    IN  IF n.exc # "none" THEN [exc |-> n.exc, inputs |-> NoInputs]
        ELSE IF to.exc # "none" THEN [exc |-> to.exc, inputs |-> NoInputs]
        ELSE IF ts.exc # "none" THEN [exc |-> ts.exc, inputs |-> NoInputs]
        ELSE IF is.exc # "none" THEN [exc |-> is.exc, inputs |-> NoInputs]
        ELSE [exc    |-> "none",
              inputs |-> [T_out |-> to.v, N_occ |-> n.v, T_set |-> ts.v, I_sol |-> is.v]]

\* except (KeyError, ValueError)
Caught(exc) ==
    exc \in {"KeyError", "ValueError"}

(***************************************************************************)
(* dashboard.py: shared state                                              *)
(***************************************************************************)
Producer == 0
Readers  == 1..NumReaders
Threads  == {Producer} \cup Readers

NoResults ==
    [T_z |-> 0, T_w |-> 0, CO2_z |-> 0, P_e |-> 0, E_KWh_cumulative |-> 0,
     timestamp |-> 0, N_occ |-> 0, T_set |-> 0]

\* what a callback has rendered before it builds a figure
NoFig ==
    [title |-> "none", latest_data |-> NoResults]

\* a mutant of DequeAppend: a full deque drops the new entry, not the oldest
DequeAppendDropNewest(q, x) ==
    IF Len(q) < maxlen THEN Append(q, x) ELSE q

\* a mutant of DequeAppend: appendleft
DequeAppendLeft(q, x) ==
    IF Len(q) < maxlen THEN <<x>> \o q ELSE <<x>> \o SubSeq(q, 1, Len(q) - 1)

\* deque(maxlen=...).append(x): a full deque discards its oldest entry
DequeAppend(q, x) ==
    IF Len(q) < maxlen THEN Append(q, x) ELSE Append(Tail(q), x)

\* threading.Lock(), unlocked
Unlocked ==
    [locked |-> FALSE, owner |-> -1]

\* whether thread t is inside a with-lock block
Holds(t) ==
    lock.locked /\ lock.owner = t

\* a mutant of Acquire: the with-block is entered without taking the lock
AcquireNoLock(t) ==
    UNCHANGED lock

\* lock.__enter__: blocks until the lock is free
Acquire(t) ==
    /\ ~lock.locked
    /\ lock' = [locked |-> TRUE, owner |-> t]

\* lock.__exit__
Release(t) ==
    lock' = Unlocked

(***************************************************************************)
(* dashboard.py / mqtt_integration/client.py: the MQTT loop thread         *)
(***************************************************************************)
\* mqtt_service_thread: creates the client, connects and subscribes
mqtt_service_thread ==
    /\ pc[Producer] = "start"
    /\ mqtt_client' = "client"
    /\ pc' = [pc EXCEPT ![Producer] = "idle"]
    /\ UNCHANGED <<sim, data_deque, lock, msg_dict, inputs, results, df, fig, escaped,
                   delivered, stepLog>>

\* MQTTClient.subscribe.on_message (client.py 159-171) up to the call of step in
\* on_sensor_data_received (dashboard.py 36-43, 55-56).  An exception that no handler
\* catches leaves on_message; the paho loop thread that called it ends.
on_message(payload) ==
    LET r == json_loads(payload)
        c == BuildInputs(r.val)
    IN  /\ pc[Producer] = "idle"
        /\ delivered' = Append(delivered, payload)
        /\ IF r.exc # "none"
           THEN /\ escaped' = r.exc
                /\ pc' = [pc EXCEPT ![Producer] = "crashed"]
                /\ UNCHANGED <<msg_dict, inputs>>
           ELSE IF c.exc = "none"
           THEN /\ msg_dict' = r.val
                /\ inputs' = c.inputs
                /\ pc' = [pc EXCEPT ![Producer] = "step"]
                /\ UNCHANGED escaped
           ELSE IF Caught(c.exc)
           THEN UNCHANGED <<msg_dict, inputs, pc, escaped>>
           ELSE /\ escaped' = c.exc
                /\ pc' = [pc EXCEPT ![Producer] = "crashed"]
                /\ UNCHANGED <<msg_dict, inputs>>
        /\ UNCHANGED <<sim, data_deque, lock, results, df, fig, mqtt_client, stepLog>>

\* on_sensor_data_received, dashboard.py 46-51: the step and the results dict
sensor_step ==
    /\ pc[Producer] = "step"
    /\ LET r == step(sim, inputs)
           t == Len(stepLog) + 1
           res == [T_z |-> r.results.T_z, T_w |-> r.results.T_w, CO2_z |-> r.results.CO2_z,
                   P_e |-> r.results.P_e,
                   E_KWh_cumulative |-> r.results.E_KWh_cumulative,
                   timestamp |-> t,
                   N_occ |-> inputs.N_occ,
                   T_set |-> FloatOf(msg_dict, "T_set").v]
       IN  /\ sim' = r.sim
           /\ results' = res
           /\ stepLog' = Append(stepLog, res)
    /\ pc' = [pc EXCEPT ![Producer] = "acquire"]
    /\ UNCHANGED <<data_deque, lock, msg_dict, inputs, df, fig, escaped, mqtt_client, delivered>>

\* dashboard.py 52
sensor_acquire ==
    /\ pc[Producer] = "acquire"
    /\ Acquire(Producer)
    /\ pc' = [pc EXCEPT ![Producer] = "append"]
    /\ UNCHANGED <<sim, data_deque, msg_dict, inputs, results, df, fig, escaped, mqtt_client,
                   delivered, stepLog>>

\* dashboard.py 53
sensor_append ==
    /\ pc[Producer] = "append"
    /\ data_deque' = DequeAppend(data_deque, results)
    /\ pc' = [pc EXCEPT ![Producer] = "release"]
    /\ UNCHANGED <<sim, lock, msg_dict, inputs, results, df, fig, escaped, mqtt_client,
                   delivered, stepLog>>

\* the end of the with block; on_sensor_data_received and on_message return
sensor_release ==
    /\ pc[Producer] = "release"
    /\ Release(Producer)
    /\ pc' = [pc EXCEPT ![Producer] = "idle"]
    /\ msg_dict' = NoMsg
    /\ inputs' = NoInputs
    /\ results' = NoResults
    /\ UNCHANGED <<sim, data_deque, df, fig, escaped, mqtt_client, delivered, stepLog>>

(***************************************************************************)
(* dashboard.py: update_graph_live                                         *)
(***************************************************************************)
\* dashboard.py 115: a callback starts and enters the with block
reader_acquire(r) ==
    /\ pc[r] = "idle"
    /\ Acquire(r)
    /\ pc' = [pc EXCEPT ![r] = "check"]
    /\ df' = [df EXCEPT ![r] = <<>>]
    /\ fig' = [fig EXCEPT ![r] = NoFig]
    /\ UNCHANGED <<sim, data_deque, msg_dict, inputs, results, escaped, mqtt_client,
                   delivered, stepLog>>

\* dashboard.py 116-118: the deque is empty, the empty figure is built
reader_empty_fig(r) ==
    /\ pc[r] = "check"
    /\ data_deque = <<>>
    /\ fig' = [fig EXCEPT ![r] = [title |-> "Waiting for sensor data...", latest_data |-> NoResults]]
    /\ pc' = [pc EXCEPT ![r] = "return_empty"]
    /\ UNCHANGED <<sim, data_deque, lock, msg_dict, inputs, results, df, escaped, mqtt_client,
                   delivered, stepLog>>

\* dashboard.py 119: return from inside the with block, which releases the lock
reader_return_empty(r) ==
    /\ pc[r] = "return_empty"
    /\ Release(r)
    /\ pc' = [pc EXCEPT ![r] = "idle"]
    /\ UNCHANGED <<sim, data_deque, msg_dict, inputs, results, df, fig, escaped, mqtt_client,
                   delivered, stepLog>>

\* dashboard.py 116, 120: the deque is not empty, it is copied
reader_copy(r) ==
    /\ pc[r] = "check"
    /\ data_deque # <<>>
    /\ df' = [df EXCEPT ![r] = data_deque]
    /\ pc' = [pc EXCEPT ![r] = "release"]
    /\ UNCHANGED <<sim, data_deque, lock, msg_dict, inputs, results, fig, escaped, mqtt_client,
                   delivered, stepLog>>

\* the end of the with block
reader_release(r) ==
    /\ pc[r] = "release"
    /\ Release(r)
    /\ pc' = [pc EXCEPT ![r] = "render"]
    /\ UNCHANGED <<sim, data_deque, msg_dict, inputs, results, df, fig, escaped, mqtt_client,
                   delivered, stepLog>>

\* a mutant of iloc_last: the first row of the frame
iloc_first(d) ==
    d[1]

\* dashboard.py 149: df.iloc[-1], the last row of the frame
iloc_last(d) ==
    d[Len(d)]

\* dashboard.py 122-181: the figure and the KPI block are built from the copy
reader_render(r) ==
    /\ pc[r] = "render"
    /\ fig' = [fig EXCEPT ![r] = [title |-> "Live Simulation Data",
                                   latest_data |-> iloc_last(df[r])]]
    /\ pc' = [pc EXCEPT ![r] = "idle"]
    /\ UNCHANGED <<sim, data_deque, lock, msg_dict, inputs, results, df, escaped, mqtt_client,
                   delivered, stepLog>>

(***************************************************************************)
(* The inbound sensor channel: the payloads it may deliver                 *)
(***************************************************************************)
\* the event of the concrete scenario, as publisher_test.py shapes it (no I_sol)
EventA == Object([T_out |-> Num(25000), N_occ |-> Num(5000), T_set |-> Num(24000)])
\* a cooling event with solar gain, its setpoint sent as a string
EventB == Object([T_out |-> Num(27000), N_occ |-> Num(0), T_set |-> NumStr(18000),
                  I_sol |-> Num(200000)])

ValidPayloads == {EventA, EventB}

MalformedPayloads ==
    {Object([T_out |-> Num(25000), N_occ |-> Num(5000)]),
     Object([T_out |-> Num(25000), N_occ |-> Num(5000), T_set |-> BadStr]),
     Object([T_out |-> Num(25000), N_occ |-> NumStr(5500), T_set |-> Num(24000)]),
     Object([T_out |-> Num(25000), N_occ |-> Num(5000), T_set |-> Null]),
     Object([T_out |-> List, N_occ |-> Num(5000), T_set |-> Num(24000)]),
     ArrayPayload,
     InvalidPayload}

Payloads == ValidPayloads \cup MalformedPayloads

(***************************************************************************)
(* Initial state: dashboard.py 25-29 and 199-203, publisher_test.py 17     *)
(***************************************************************************)
NoCall ==
    [n |-> 0, state |-> <<0, 0, 0>>, cum |-> 0, inputs |-> NoInputs, hp |-> <<0, 0>>,
     results |-> [T_z |-> 0, T_w |-> 0, CO2_z |-> 0, P_e |-> 0, E_KWh_cumulative |-> 0]]

\* the data dict of publisher_test.run before it is built; atBuild is a history field:
\* the setpoint last parsed when the dict was built
NoData ==
    [T_out |-> 0, N_occ |-> 0, T_set |-> 0, atBuild |-> 0]

\* dashboard.py 201-203
hvac_sim ==
    HVACSimulator(<<18000, 19000, 600000>>, Params, 300)

DashInit ==
    /\ sim = hvac_sim
    /\ data_deque = <<>>
    /\ lock = Unlocked
    /\ pc = [t \in Threads |-> IF t = Producer THEN "start" ELSE "idle"]
    /\ msg_dict = NoMsg
    /\ inputs = NoInputs
    /\ results = NoResults
    /\ df = [r \in Readers |-> <<>>]
    /\ fig = [r \in Readers |-> NoFig]
    /\ escaped = "none"
    /\ mqtt_client = "None"
    /\ delivered = <<>>
    /\ stepLog = <<>>
    /\ call = NoCall
    /\ batch = NoBatch

PubInit ==
    /\ n_clicks = 0
    /\ current_setpoint = 24000
    /\ data = NoData
    /\ ppc = "build"
    /\ controlChan = <<>>
    /\ sensorChan = <<>>
    /\ lastParsed = 24000
    /\ published = <<>>

Init ==
    DashInit /\ PubInit

(***************************************************************************)
(* Spec: the dashboard process, its MQTT loop thread and its readers       *)
(***************************************************************************)
PubIdle ==
    UNCHANGED <<call, batch, n_clicks, current_setpoint, data, ppc, controlChan, sensorChan,
                lastParsed, published>>

\* the broker delivers a payload to the subscribed client
Deliver ==
    /\ Len(delivered) < MaxMsgs
    /\ \E payload \in Payloads : on_message(payload)
    /\ PubIdle

Next ==
    \/ Deliver
    \/ mqtt_service_thread /\ PubIdle
    \/ sensor_step /\ PubIdle
    \/ sensor_acquire /\ PubIdle
    \/ sensor_append /\ PubIdle
    \/ sensor_release /\ PubIdle
    \/ \E r \in Readers : reader_acquire(r) /\ PubIdle
    \/ \E r \in Readers : reader_empty_fig(r) /\ PubIdle
    \/ \E r \in Readers : reader_return_empty(r) /\ PubIdle
    \/ \E r \in Readers : reader_copy(r) /\ PubIdle
    \/ \E r \in Readers : reader_release(r) /\ PubIdle
    \/ \E r \in Readers : reader_render(r) /\ PubIdle

Spec ==
    Init /\ [][Next]_vars

(***************************************************************************)
(* Claims about the streaming path, checked under Spec                     *)
(***************************************************************************)
Required == {"T_out", "N_occ", "T_set"}

\* a sensor event every required field of which holds a number (or a string spelling
\* one, an integer for N_occ), and whose I_sol, if present, does too
WellFormed(p) ==
    /\ p.json = "object"
    /\ \A k \in Required : p.d[k].t \in {"num", "numstr"}
    /\ p.d["N_occ"].t = "numstr" => p.d["N_occ"].v % 1000 = 0
    /\ p.d["I_sol"].t \in {"absent", "num", "numstr"}

\* a sensor event with a required field missing or holding a value that cannot be
\* converted to a number
MalformedEvent(p) ==
    /\ p.json = "object"
    /\ \/ \E k \in Required : p.d[k].t \in {"absent", "badstr", "null", "list"}
       \/ p.d["N_occ"].t = "numstr" /\ p.d["N_occ"].v % 1000 # 0

\* the last n elements of q (all of q when it is shorter)
LastN(q, n) ==
    IF Len(q) <= n THEN q ELSE SubSeq(q, Len(q) - n + 1, Len(q))

Front(q) ==
    SubSeq(q, 1, Len(q) - 1)

\* the results already pushed into the history: all the steps made, but the one whose
\* result the producer still holds
Pushed ==
    IF pc[Producer] \in {"acquire", "append"} THEN Front(stepLog) ELSE stepLog

\* the simulator and the results obtained by stepping a fresh simulator through the
\* events evs alone, in order
RECURSIVE RunAlone(_, _, _)
RunAlone(s, log, evs) ==
    IF evs = <<>> THEN [sim |-> s, log |-> log]
    ELSE LET e   == Head(evs)
             inp == BuildInputs(e).inputs
             r   == step(s, inp)
             res == [T_z |-> r.results.T_z, T_w |-> r.results.T_w,
                     CO2_z |-> r.results.CO2_z, P_e |-> r.results.P_e,
                     E_KWh_cumulative |-> r.results.E_KWh_cumulative,
                     timestamp |-> Len(log) + 1, N_occ |-> inp.N_occ, T_set |-> inp.T_set]
         IN  RunAlone(r.sim, Append(log, res), Tail(evs))

AtRest ==
    pc[Producer] \in {"idle", "crashed"}

OnlyEvents ==
    \A i \in 1..Len(delivered) : WellFormed(delivered[i]) \/ MalformedEvent(delivered[i])

\* C1: when valid and malformed sensor events have been processed, every malformed one
\* was rejected by the handler, which returned normally, and the simulator and the
\* history are those obtained by processing the valid events alone, in order.
C1_MalformedSkipped ==
    (AtRest /\ OnlyEvents) =>
        LET alone == RunAlone(hvac_sim, <<>>, SelectSeq(delivered, WellFormed))
        IN  /\ pc[Producer] = "idle"
            /\ escaped = "none"
            /\ sim = alone.sim
            /\ data_deque = LastN(alone.log, maxlen)

\* the part of C1 the code keeps: malformed events that raise KeyError or ValueError
\* (a missing field, a string that spells no number) are skipped without a trace
C1_CaughtEventsSkipped ==
    (AtRest /\ \A i \in 1..Len(delivered) :
                  \/ WellFormed(delivered[i])
                  \/ /\ MalformedEvent(delivered[i])
                     /\ \A k \in Required : delivered[i].d[k].t \notin {"null", "list"}) =>
        LET alone == RunAlone(hvac_sim, <<>>, SelectSeq(delivered, WellFormed))
        IN  /\ pc[Producer] = "idle"
            /\ escaped = "none"
            /\ sim = alone.sim
            /\ data_deque = LastN(alone.log, maxlen)

\* C2: whatever payload the sensor channel delivers, no exception leaves on_message,
\* and the MQTT loop thread stays alive to process the events that follow.
C2_NoExceptionEscapes ==
    escaped = "none" /\ pc[Producer] # "crashed"

\* C3: the history holds exactly the results of the most recent min(n, maxlen) steps
\* of the n made so far, oldest first.
C3_HistoryWindow ==
    /\ Len(data_deque) = Min(Len(Pushed), maxlen)
    /\ data_deque = LastN(Pushed, maxlen)

\* C3 witness: more results were pushed than the history holds, the oldest was evicted
C3_Evicted ==
    /\ pc[Producer] = "idle"
    /\ Len(stepLog) > maxlen
    /\ Len(data_deque) = maxlen
    /\ data_deque[1] = stepLog[Len(stepLog) - maxlen + 1]

\* h lists consecutive steps, in the order step was invoked
InStepOrder(h) ==
    \/ h = <<>>
    \/ \E k \in 0..(Len(stepLog) - Len(h)) : h = SubSeq(stepLog, k + 1, k + Len(h))

\* C4: the history and every reader's copy of it list the results of consecutive
\* steps in the order in which step was invoked.
C4_StepOrder ==
    /\ InStepOrder(data_deque)
    /\ \A r \in Readers : InStepOrder(df[r])

\* C4 witness: a reader holds a full copy that the producer has since moved past
C4_StaleCopy ==
    \E r \in Readers :
        /\ pc[r] = "render"
        /\ Len(df[r]) = maxlen
        /\ Len(data_deque) = maxlen
        /\ df[r] # data_deque

\* thread t is at a statement that reads or writes data_deque
Accessing(t) ==
    \/ t = Producer /\ pc[t] = "append"
    \/ t \in Readers /\ pc[t] = "check"

\* C5: a thread reads or writes the history only while it holds the lock, so no two
\* threads are at an access of the history at the same time.
C5_LockDiscipline ==
    /\ \A t \in Threads : Accessing(t) => Holds(t)
    /\ Cardinality({t \in Threads : Accessing(t)}) <= 1

\* C5 witness: the producer waits for the lock while a reader copies the history
C5_Contention ==
    /\ pc[Producer] = "acquire"
    /\ data_deque # <<>>
    /\ \E r \in Readers : pc[r] = "check" /\ Holds(r)

\* C6: the lock is held only for the append and for the copy: the producer holds it
\* only after the step is made, a reader only before it has built any figure.
C6_LockOnlyForHistory ==
    /\ Holds(Producer) => pc[Producer] \in {"append", "release"}
    /\ \A r \in Readers : Holds(r) => (pc[r] \in {"check", "release"} /\ fig[r] = NoFig)

\* C12: a read returns the no-data figure exactly when nothing has been published
\* to the history at the time it looks, under the lock; otherwise the copy it takes
\* ends with the most recently published result, and the latest snapshot it reports
\* is that last element of its copy, a published result, whatever the producer does
\* in between.
C12_LatestSnapshot ==
    \A r \in Readers :
        /\ pc[r] = "return_empty" =>
               /\ fig[r].title = "Waiting for sensor data..."
               /\ fig[r].latest_data = NoResults
               /\ Pushed = <<>>
        /\ pc[r] = "release" =>
               /\ Pushed # <<>>
               /\ df[r] # <<>>
               /\ df[r][Len(df[r])] = Pushed[Len(Pushed)]
        /\ (pc[r] = "idle" /\ fig[r].title = "Live Simulation Data") =>
               /\ df[r] # <<>>
               /\ fig[r].latest_data = df[r][Len(df[r])]
               /\ \E k \in 1..Len(Pushed) : fig[r].latest_data = Pushed[k]

\* C12 witness: a reader has reported the last element of a two-element copy, and
\* the producer has published a newer result since the copy was taken
C12_ReportedThenOverwritten ==
    \E r \in Readers :
        /\ pc[r] = "idle"
        /\ fig[r].title = "Live Simulation Data"
        /\ Len(df[r]) = 2
        /\ fig[r].latest_data = df[r][2]
        /\ data_deque # <<>>
        /\ data_deque[Len(data_deque)].timestamp > fig[r].latest_data.timestamp

(***************************************************************************)
(* SpecPhysics: a caller steps a simulator directly (run_live_hvac.py)     *)
(***************************************************************************)
\* parameter sets with strictly positive constants: the defaults, and one with three
\* different COPs and other HVAC constants
ParamSets ==
    {Params,
     [Params EXCEPT !.COP = 25, !.COP_cool = 40, !.COP_heat = 20, !.m_air_des = 10,
                    !.P_fan_des = 800, !.c_p = 1000]}

\* initial states: dashboard.py 202 and run_live_hvac.py 17, and two with the zone's
\* CO2 at the outdoor baseline and 0.01 ppm above it
InitialStates ==
    {<<18000, 19000, 600000>>, <<24000, 24000, 600000>>,
     <<24000, 24000, 400000>>, <<24000, 24000, 400010>>}

SimInputs ==
    [T_out : {20000, 25000}, N_occ : {0, 5}, T_set : {18000, 24000}, I_sol : {0}]

PhysInit ==
    /\ sim \in {HVACSimulator(s0, p, 300) : s0 \in InitialStates, p \in ParamSets}
    /\ data_deque = <<>>
    /\ lock = Unlocked
    /\ pc = [t \in Threads |-> IF t = Producer THEN "start" ELSE "idle"]
    /\ msg_dict = NoMsg
    /\ inputs = NoInputs
    /\ results = NoResults
    /\ df = [r \in Readers |-> <<>>]
    /\ fig = [r \in Readers |-> NoFig]
    /\ escaped = "none"
    /\ mqtt_client = "None"
    /\ delivered = <<>>
    /\ stepLog = <<>>
    /\ call = NoCall
    /\ batch = NoBatch
    /\ PubInit

\* run_live_hvac.py 39-40: results = hvac_sim.step(inputs)
direct_step ==
    /\ sim # NoSim
    /\ call.n < MaxSteps
    /\ \E inp \in SimInputs :
          LET r == step(sim, inp)
          IN  /\ sim' = r.sim
              /\ call' = [n       |-> call.n + 1,
                          state   |-> sim.state,
                          cum     |-> sim.cumulative_energy_kwh,
                          inputs  |-> inp,
                          hp      |-> hvac_power(sim.state[1], inp.T_set, sim.params),
                          results |-> r.results]
              /\ stepLog' = Append(stepLog, r.results)
    /\ UNCHANGED <<data_deque, lock, pc, msg_dict, inputs, results, df, fig, escaped,
                   mqtt_client, delivered>>
    /\ UNCHANGED pubVars
    /\ UNCHANGED batch

PhysNext ==
    direct_step

SpecPhysics ==
    PhysInit /\ [][PhysNext]_vars

(***************************************************************************)
(* Claims about the physics and the integrator, checked under SpecPhysics  *)
(***************************************************************************)
\* C8: the power every step returns is >= 0 and the cumulative energy never
\* decreases from one step to the next.
C8_EnergyMonotone ==
    /\ \A i \in 1..Len(stepLog) :
          /\ stepLog[i].P_e >= 0
          /\ stepLog[i].E_KWh_cumulative >= (IF i = 1 THEN 0 ELSE stepLog[i - 1].E_KWh_cumulative)
    /\ sim.cumulative_energy_kwh >= call.cum

\* C8 witness: a heating step (Q < 0) after an earlier step that drew power
C8_HeatingAfterPower ==
    /\ call.n >= 2
    /\ call.cum > 0
    /\ call.hp[1] < 0
    /\ call.results.P_e > 0
    /\ call.results.E_KWh_cumulative > call.cum

\* C9: hvac_power returns Q = m_air*c_p*delta and P_e = Q/COP_cool + P_fan when
\* delta > 0, P_e = |Q|/COP_heat + P_fan when delta < 0, and Q = P_e = 0 when delta = 0.
C9_HvacPowerFormula ==
    call.n > 0 =>
        LET p     == sim.params
            delta == call.state[1] - call.inputs.T_set
            Q     == RoundDiv(p.m_air_des * p.c_p * delta, 10000)
        IN  call.hp = IF delta > 0 THEN <<Q, RoundDiv(Q * 10, p.COP_cool) + p.P_fan_des>>
                      ELSE IF delta < 0
                      THEN <<Q, RoundDiv(Abs(Q) * 10, p.COP_heat) + p.P_fan_des>>
                      ELSE <<0, 0>>

\* the concrete scenario: default parameters, dt = 300 s, initial state 18.0, 19.0,
\* 600.0, and one step on {T_out: 25.0, N_occ: 5, T_set: 24.0, I_sol: 0.0}
Scenario ==
    /\ call.n = 1
    /\ sim.params = Params
    /\ sim.dt_s = 300
    /\ call.state = <<18000, 19000, 600000>>
    /\ call.inputs = [T_out |-> 25000, N_occ |-> 5, T_set |-> 24000, I_sol |-> 0]

\* C10 as stated: the step of the scenario returns P_e = 0 and CO2_z > 600.0
C10_ScenarioPowerZero ==
    Scenario => (call.results.P_e = 0 /\ call.results.CO2_z > 600000)

\* C10 as amended: the step of the scenario returns a strictly positive P_e, no less
\* than the fan power (the heating branch is active), and CO2_z > 600.0
C10_ScenarioHeatingPower ==
    Scenario => /\ call.results.P_e > 0
                /\ call.results.P_e >= sim.params.P_fan_des
                /\ call.hp[1] < 0
                /\ call.results.CO2_z > 600000

\* C10 witness: the step of the scenario has been made
C10_ScenarioStepped ==
    Scenario /\ sim.state[3] = call.results.CO2_z

\* a step of the last call made with no occupant, from a CO2_z at or above the
\* outdoor baseline, with the default parameters
UnoccupiedStep ==
    /\ call.n > 0
    /\ sim.params = Params
    /\ sim.dt_s = 300
    /\ call.inputs.N_occ = 0
    /\ call.state[3] >= 400000

\* C13 as stated: a step with N_occ = 0 from CO2_z >= 400 ppm leaves CO2_z >= 400 ppm,
\* no further from 400 than before, and strictly closer whenever it was above 400.
C13_CO2StrictlyCloser ==
    UnoccupiedStep =>
        /\ call.results.CO2_z >= 400000
        /\ call.results.CO2_z <= call.state[3]
        /\ call.state[3] > 400000 => call.results.CO2_z < call.state[3]

\* C13 as amended: a step with N_occ = 0 from CO2_z >= 400 ppm leaves CO2_z >= 400 ppm
\* and no further from 400 than before, and strictly closer whenever it was 1 ppm
\* or more above 400 (nearer than that, the update may round to no change).
C13_CO2NeverBelowBaseline ==
    UnoccupiedStep =>
        /\ call.results.CO2_z >= 400000
        /\ call.results.CO2_z <= call.state[3]
        /\ call.state[3] >= 401000 => call.results.CO2_z < call.state[3]

\* C13 witness: a second step with no occupant has brought a CO2_z that was well
\* above the baseline closer to it
C13_Decayed ==
    /\ UnoccupiedStep
    /\ call.n >= 2
    /\ call.state[3] >= 401000
    /\ call.results.CO2_z < call.state[3]
    /\ call.results.CO2_z > 400000

\* physics.py 46-49 without the HVAC term: the zone's balance of conduction from
\* outside, exchange with the wall and internal gains, over C_z
dTz_free(state, inp, p) ==
    LET T_z   == state[1]
        T_w   == state[2]
        T_out == inp["T_out"]
        N_occ == inp["N_occ"]
        Q_int == Get(inp, "Q_int", 100000 * N_occ)
    IN  RoundDiv((RoundDiv((T_out - T_z) * 10, p.R_oa)
                  + RoundDiv((T_w - T_z) * 10, p.R_wz)
                  + RoundDiv(Q_int, 1000)) * 1000, C_z_kW(p))

\* physics.py 49: the term -Q_HVAC / C_z of the last call on its own, in 1e-7 K/s
HvacTerm ==
    RoundDiv(-call.hp[1] * 10000, C_z_kW(sim.params))

\* what the HVAC term contributes to the dT_z/dt that rhs computed in the last call,
\* in the 1e-6 K/s to which the model rounds that derivative
HvacContribution ==
    rhs(call.state, call.inputs, sim.params)[1]
        - dTz_free(call.state, call.inputs, sim.params)

\* C15: in every step made at T_z # T_set, the HVAC heat flow has the sign of
\* delta = T_z - T_set, and the term -Q_HVAC / C_z in the dT_z/dt computed by rhs has
\* the opposite sign: it is negative when T_z > T_set and positive when T_z < T_set.
\* In the rounded dT_z/dt the term never shows with the sign of delta, and shows with
\* the opposite sign whenever it is as large as one unit of that rounding.
C15_HvacOpposesDelta ==
    call.n > 0 =>
        LET delta == call.state[1] - call.inputs.T_set
            Q     == call.hp[1]
            C_z   == C_z_kW(sim.params)
        IN  /\ delta > 0 => /\ Q > 0
                            /\ HvacTerm < 0
                            /\ HvacContribution <= 0
                            /\ Q * 1000 >= C_z => HvacContribution < 0
            /\ delta < 0 => /\ Q < 0
                            /\ HvacTerm > 0
                            /\ HvacContribution >= 0
                            /\ -Q * 1000 >= C_z => HvacContribution > 0

\* C15 witness: a heating step, whose HVAC term raised dT_z/dt, made after a cooling
\* step or a step at the setpoint
C15_HeatingRaises ==
    /\ call.n >= 2
    /\ call.state[1] < call.inputs.T_set
    /\ HvacContribution > 0
    /\ call.state[1] > 18000

\* C16: every step evaluates rhs once, at the state held before the call; the new
\* state is the old state plus derivative * dt in all three components; the
\* cumulative energy grows by exactly P_e * dt / 3600; the result holds the new
\* state, the power computed from the old state and the new cumulative energy; dt
\* and the parameter set are as before, and the event is the one that was passed.
C16_EulerStep ==
    [][call'.n = call.n + 1 =>
          LET inp   == call'.inputs
              deriv == rhs(sim.state, inp, sim.params)
          IN  /\ inp \in SimInputs
              /\ \A i \in 1..3 :
                     sim'.state[i] = sim.state[i] + RoundDiv(deriv[i] * sim.dt_s, 1000)
              /\ sim'.cumulative_energy_kwh
                     = sim.cumulative_energy_kwh + RoundDiv(deriv[4] * sim.dt_s, 3600)
              /\ call'.results = [T_z |-> sim'.state[1], T_w |-> sim'.state[2],
                                  CO2_z |-> sim'.state[3], P_e |-> deriv[4],
                                  E_KWh_cumulative |-> sim'.cumulative_energy_kwh]
              /\ deriv[4] = hvac_power(sim.state[1], inp.T_set, sim.params)[2]
              /\ sim'.dt_s = sim.dt_s
              /\ sim'.params = sim.params]_vars

\* C16 witness: a second step has moved all three state components and added energy,
\* and the power it returned is not the power at the state it left behind
C16_SteppedTwice ==
    /\ call.n = 2
    /\ \A i \in 1..3 : sim.state[i] # call.state[i]
    /\ sim.cumulative_energy_kwh > call.cum
    /\ call.cum > 0
    /\ call.results.P_e # hvac_power(sim.state[1], call.inputs.T_set, sim.params)[2]

(***************************************************************************)
(* SpecEquilibrium: a simulator with the default parameters is stepped     *)
(* again and again on one constant event with T_out = T_set, N_occ = 0 and *)
(* I_sol = 0.  The caller makes a step whenever the next event arrives, so *)
(* the step is weakly fair.                                                *)
(***************************************************************************)
\* initial zone and wall temperatures around the 24.0 C of the constant event: at it,
\* 0.1 K and 0.02 K above it, and on either side of it (CO2 at its baseline)
EqInitialStates ==
    {<<24000, 24000, 400000>>, <<24100, 24000, 400000>>, <<24020, 24000, 400000>>,
     <<23900, 24100, 400000>>, <<24000, 24050, 400000>>}

\* the constant event
EqInputs ==
    [T_out |-> 24000, N_occ |-> 0, T_set |-> 24000, I_sol |-> 0]

EqInit ==
    /\ sim \in {HVACSimulator(s0, Params, 300) : s0 \in EqInitialStates}
    /\ data_deque = <<>>
    /\ lock = Unlocked
    /\ pc = [t \in Threads |-> IF t = Producer THEN "start" ELSE "idle"]
    /\ msg_dict = NoMsg
    /\ inputs = EqInputs
    /\ results = NoResults
    /\ df = [r \in Readers |-> <<>>]
    /\ fig = [r \in Readers |-> NoFig]
    /\ escaped = "none"
    /\ mqtt_client = "None"
    /\ delivered = <<>>
    /\ stepLog = <<>>
    /\ call = NoCall
    /\ batch = NoBatch
    /\ PubInit

\* run_live_hvac.py 39-40: results = hvac_sim.step(inputs), on the constant event
equilibrium_step ==
    /\ call.n < MaxEqSteps
    /\ LET r == step(sim, inputs)
       IN  /\ sim' = r.sim
           /\ call' = [n       |-> call.n + 1,
                       state   |-> sim.state,
                       cum     |-> sim.cumulative_energy_kwh,
                       inputs  |-> inputs,
                       hp      |-> hvac_power(sim.state[1], inputs.T_set, sim.params),
                       results |-> r.results]
    /\ UNCHANGED <<data_deque, lock, pc, msg_dict, inputs, results, df, fig, escaped,
                   mqtt_client, delivered, stepLog>>
    /\ UNCHANGED pubVars
    /\ UNCHANGED batch

EqNext ==
    equilibrium_step

SpecEquilibrium ==
    EqInit /\ [][EqNext]_vars /\ WF_vars(equilibrium_step)

\* the simulator has reached a state that a further step on the constant event
\* leaves as it is, at a zone temperature that is not the setpoint: every further
\* step draws the same power
StalledUnderPower ==
    /\ call.n > 0
    /\ step(sim, inputs).sim.state = sim.state
    /\ sim.state[1] # inputs.T_set
    /\ step(sim, inputs).results.P_e >= sim.params.P_fan_des

\* C14: under the constant event, from any initial T_z and T_w, the power drawn
\* eventually becomes 0 and stays 0.  A step is a function of the state and the
\* event, so this requires that the run never settles in a state that a further step
\* leaves unchanged while drawing at least the fan power.
C14_NeverStalledUnderPower ==
    ~StalledUnderPower

\* C14 in its temporal form, for a run of MaxEqSteps steps: the power the steps return
\* eventually becomes 0 and stays 0 (the cumulative energy stops growing).
C14_PowerEventuallyZero ==
    <>[](call.n > 0 /\ call.results.P_e = 0)

(***************************************************************************)
(* SpecConstruct: construction of a parameter set and of a simulator.      *)
(* Params is a plain dataclass: its generated __init__ stores every field, *)
(* the given ones and the defaults, and parameters.py defines no           *)
(* __post_init__.  HVACSimulator.__init__ stores the parameter set as it   *)
(* is.  The overrides below give one constant a value that is zero (for a  *)
(* constant the physics never divides by) or negative.                     *)
(***************************************************************************)
\* the thermal and physical constants of a parameter set
PhysicalConstants ==
    {"R_oa", "R_wz", "R_ow", "C_z", "C_w", "COP", "P_fan_des", "m_air_des", "V", "ACH",
     "E_occ", "c_p"}

\* parameters.py 3-28: Params(field = value), every other field at its default
Params_init(field, value) ==
    [Params EXCEPT ![field] = value]

\* keyword arguments of Params(...): a valid one, and non-positive ones
Overrides ==
    {<<"COP", 40>>, <<"COP", -35>>, <<"R_oa", -30>>, <<"C_z", -3000>>, <<"V", -240>>,
     <<"P_fan_des", 0>>, <<"m_air_des", 0>>, <<"ACH", 0>>, <<"E_occ", -5>>, <<"c_p", 0>>}

\* run_live_hvac.py 15-19: params = Params(...); hvac_sim = HVACSimulator(initial_state,
\* params, dt_s=300).  Neither constructor has a path that raises on a value.
construct ==
    /\ sim = NoSim
    /\ \E o \in Overrides, s0 \in InitialStates :
          sim' = HVACSimulator(s0, Params_init(o[1], o[2]), 300)
    /\ UNCHANGED <<data_deque, lock, pc, msg_dict, inputs, results, df, fig, escaped,
                   mqtt_client, delivered, stepLog, call, batch>>
    /\ UNCHANGED pubVars

ConstructInit ==
    /\ sim = NoSim
    /\ data_deque = <<>>
    /\ lock = Unlocked
    /\ pc = [t \in Threads |-> IF t = Producer THEN "start" ELSE "idle"]
    /\ msg_dict = NoMsg
    /\ inputs = NoInputs
    /\ results = NoResults
    /\ df = [r \in Readers |-> <<>>]
    /\ fig = [r \in Readers |-> NoFig]
    /\ escaped = "none"
    /\ mqtt_client = "None"
    /\ delivered = <<>>
    /\ stepLog = <<>>
    /\ call = NoCall
    /\ batch = NoBatch
    /\ PubInit

ConstructNext ==
    \/ construct
    \/ direct_step

SpecConstruct ==
    ConstructInit /\ [][ConstructNext]_vars

\* C11: every simulator that has been built, and so every simulator that has made
\* a step, holds a parameter set whose thermal and physical constants are all
\* strictly positive (building one with a zero or negative constant fails).
C11_InvalidParamsRejected ==
    sim # NoSim => \A k \in PhysicalConstants : sim.params[k] > 0

(***************************************************************************)
(* SpecBatch: hvac_sim/simulate.py.  run_simulation walks the rows of an   *)
(* input frame; beside it an HVACSimulator built on run_simulation's       *)
(* initial state is stepped once per row of the same frame.  The two       *)
(* advance independently.                                                  *)
(***************************************************************************)
\* rows of an input frame with the columns T_out, N_occ, T_set (run.py 13-15)
Rows ==
    {[T_out |-> 20000, N_occ |-> 0, T_set |-> 18000],
     [T_out |-> 25000, N_occ |-> 5, T_set |-> 24000],
     [T_out |-> 25000, N_occ |-> 0, T_set |-> 18000],
     [T_out |-> 20000, N_occ |-> 5, T_set |-> 24000]}

\* the frames of 1 to MaxRows rows
Frames ==
    UNION {[1..n -> Rows] : n \in 1..MaxRows}

TimeSteps ==
    {300, 600}

\* simulate.py 15-21: the initial state and the empty accumulators
run_simulation(df_in, p, dt_s) ==
    LET T0 == df_in[1]["T_set"]
    IN  [df_in |-> df_in, p |-> p, dt_s |-> dt_s, state |-> <<T0, T0, 600000>>,
         energy |-> 0, rec |-> <<>>]

\* a mutant of run_simulation_row: the energy of a row forgets the step length
run_simulation_row_no_dt(b, row) ==
    LET deriv    == rhs(b.state, row, b.p)
        newState == [i \in 1..3 |-> b.state[i] + RoundDiv(deriv[i] * b.dt_s, 1000)]
        P_e      == deriv[4]
        energy   == b.energy + RoundDiv(P_e, 3600)
    IN  [b EXCEPT !.state = newState, !.energy = energy,
                  !.rec = Append(b.rec, [T_z |-> newState[1], T_w |-> newState[2],
                                         CO2_z |-> newState[3], P_e |-> P_e,
                                         E_KWh |-> energy])]

\* simulate.py 24-36: the body of the loop, for one row
run_simulation_row(b, row) ==
    LET deriv    == rhs(b.state, row, b.p)
        newState == [i \in 1..3 |-> b.state[i] + RoundDiv(deriv[i] * b.dt_s, 1000)]
        P_e      == deriv[4]
        energy   == b.energy + RoundDiv(P_e * b.dt_s, 3600)
    IN  [b EXCEPT !.state = newState, !.energy = energy,
                  !.rec = Append(b.rec, [T_z |-> newState[1], T_w |-> newState[2],
                                         CO2_z |-> newState[3], P_e |-> P_e,
                                         E_KWh |-> energy])]

\* run_simulation has been called on a frame, and an HVACSimulator has been built with
\* the same parameters, step length and initial state
BatchInit ==
    /\ \E df_in \in Frames, p \in ParamSets, dt_s \in TimeSteps :
          /\ batch = run_simulation(df_in, p, dt_s)
          /\ sim = HVACSimulator(batch.state, p, dt_s)
    /\ data_deque = <<>>
    /\ lock = Unlocked
    /\ pc = [t \in Threads |-> IF t = Producer THEN "start" ELSE "idle"]
    /\ msg_dict = NoMsg
    /\ inputs = NoInputs
    /\ results = NoResults
    /\ df = [r \in Readers |-> <<>>]
    /\ fig = [r \in Readers |-> NoFig]
    /\ escaped = "none"
    /\ mqtt_client = "None"
    /\ delivered = <<>>
    /\ stepLog = <<>>
    /\ call = NoCall
    /\ PubInit

\* simulate.py 24-36: one iteration of `for t, row in df_in.iterrows()`
batch_row ==
    /\ Len(batch.rec) < Len(batch.df_in)
    /\ batch' = run_simulation_row(batch, batch.df_in[Len(batch.rec) + 1])
    /\ UNCHANGED <<sim, data_deque, lock, pc, msg_dict, inputs, results, df, fig, escaped,
                   mqtt_client, delivered, stepLog, call>>
    /\ UNCHANGED pubVars

\* the simulator is stepped on the next row of the frame
sim_row ==
    /\ Len(stepLog) < Len(batch.df_in)
    /\ LET r == step(sim, batch.df_in[Len(stepLog) + 1])
       IN  /\ sim' = r.sim
           /\ stepLog' = Append(stepLog, r.results)
    /\ UNCHANGED <<data_deque, lock, pc, msg_dict, inputs, results, df, fig, escaped,
                   mqtt_client, delivered, call, batch>>
    /\ UNCHANGED pubVars

BatchNext ==
    \/ batch_row
    \/ sim_row

SpecBatch ==
    BatchInit /\ [][BatchNext]_vars

\* C17: row by row, run_simulation records the same T_z, T_w, CO2_z, P_e and
\* cumulative energy as the simulator built on its initial state returns when it is
\* stepped on the same rows in the same order; and when both have processed the same
\* number of rows they hold the same state and energy.
C17_BatchEqualsStepper ==
    /\ \A i \in 1..Min(Len(batch.rec), Len(stepLog)) :
          /\ batch.rec[i].T_z = stepLog[i].T_z
          /\ batch.rec[i].T_w = stepLog[i].T_w
          /\ batch.rec[i].CO2_z = stepLog[i].CO2_z
          /\ batch.rec[i].P_e = stepLog[i].P_e
          /\ batch.rec[i].E_KWh = stepLog[i].E_KWh_cumulative
    /\ Len(batch.rec) = Len(stepLog) =>
          /\ batch.state = sim.state
          /\ batch.energy = sim.cumulative_energy_kwh

\* C17 witness: both have processed a frame of three rows that changes its setpoint,
\* and both drew power
C17_BothFinished ==
    /\ Len(batch.df_in) = 3
    /\ Len(batch.rec) = 3
    /\ Len(stepLog) = 3
    /\ batch.df_in[1].T_set # batch.df_in[2].T_set
    /\ batch.energy > 0
    /\ batch.rec[3].P_e > 0
    /\ batch.rec[3].E_KWh > batch.rec[1].E_KWh

(***************************************************************************)
(* SpecFeedback: the setpoint feedback path.  The dashboard's slider       *)
(* callback publishes a setpoint on the control topic; the publisher's     *)
(* MQTT loop thread stores it; the publisher's main loop puts it in the    *)
(* sensor events the dashboard ingests.                                    *)
(***************************************************************************)
\* values of the slider (a number of 18..28, or None)
SliderValues == {Num(18000), Num(26500), Null}

\* str(temp_setpoint): the text of a number, or "None"
PyStr(x) ==
    IF x.t = "num" THEN NumStr(x.v) ELSE BadStr

\* dashboard.py 188-196: the callback runs when the page loads, with n_clicks = 0
\* (click = 0), and at every click of the button, which counts it (click = 1)
update_setpoint ==
    /\ n_clicks < MaxCtl
    /\ \E click \in {0, 1}, temp_setpoint \in SliderValues :
          /\ click = 0 => n_clicks = 0
          /\ n_clicks' = n_clicks + click
          /\ IF n_clicks' > 0 /\ mqtt_client # "None"
             THEN controlChan' = Append(controlChan, PyStr(temp_setpoint))
             ELSE UNCHANGED controlChan
    /\ UNCHANGED <<current_setpoint, data, ppc, sensorChan, lastParsed, published, call, batch>>
    /\ UNCHANGED dashVars

\* a mutant of parse_setpoint: a payload that cannot be parsed resets the default
parse_setpoint_reset(cur, payload) ==
    LET new_setpoint == PyFloat(payload)
    IN  IF new_setpoint.exc = "none" THEN new_setpoint.v ELSE 24000

\* publisher_test.py 31-36: the setpoint after the payload was handled
parse_setpoint(cur, payload) ==
    LET new_setpoint == PyFloat(payload)
    IN  IF new_setpoint.exc = "none" THEN new_setpoint.v ELSE cur

\* publisher_test.py 28-36: on_message of the publisher, on the control topic
pub_on_message ==
    /\ controlChan # <<>>
    /\ current_setpoint' = parse_setpoint(current_setpoint, Head(controlChan))
    /\ lastParsed' = (IF Head(controlChan).t = "numstr" THEN Head(controlChan).v
                      ELSE lastParsed)
    /\ controlChan' = Tail(controlChan)
    /\ UNCHANGED <<n_clicks, data, ppc, sensorChan, published, call, batch>>
    /\ UNCHANGED dashVars

\* a mutant of build_data: the event carries the default setpoint
build_data_default(temp_outside, occupants, setpoint) ==
    [T_out |-> temp_outside, N_occ |-> occupants, T_set |-> 24000]

\* publisher_test.py 52-56
build_data(temp_outside, occupants, setpoint) ==
    [T_out |-> temp_outside, N_occ |-> occupants, T_set |-> setpoint]

\* publisher_test.py 47-48: the values random.uniform and random.randint may draw,
\* the two extremes of each
PubSamples ==
    {<<23000, 0>>, <<27000, 15>>}

\* publisher_test.py 47-56: the loop draws the sensor values and builds the dict
pub_build ==
    /\ ppc = "build"
    /\ Len(published) < MaxPub
    /\ \E sample \in PubSamples :
          LET temp_outside == sample[1]
              occupants    == sample[2]
              d            == build_data(temp_outside, occupants, current_setpoint)
          IN  data' = [T_out |-> d.T_out, N_occ |-> d.N_occ, T_set |-> d.T_set,
                       atBuild |-> lastParsed]
    /\ ppc' = "publish"
    /\ UNCHANGED <<n_clicks, current_setpoint, controlChan, sensorChan, lastParsed, published,
                   call, batch>>
    /\ UNCHANGED dashVars

\* json.dumps(data)
json_dumps(d) ==
    Object([T_out |-> Num(d.T_out), N_occ |-> Num(d.N_occ * 1000), T_set |-> Num(d.T_set)])

\* publisher_test.py 58-65: the event is published, or the client reports a failure
pub_publish ==
    /\ ppc = "publish"
    /\ \E status \in {0, 4} :
          IF status = 0
          THEN /\ sensorChan' = Append(sensorChan, json_dumps(data))
               /\ published' = Append(published, [T_set     |-> data.T_set,
                                                  atBuild   |-> data.atBuild,
                                                  atPublish |-> lastParsed])
          ELSE UNCHANGED <<sensorChan, published>>
    /\ ppc' = "sleep"
    /\ UNCHANGED <<n_clicks, current_setpoint, data, controlChan, lastParsed, call, batch>>
    /\ UNCHANGED dashVars

\* publisher_test.py 67
pub_sleep ==
    /\ ppc = "sleep"
    /\ ppc' = "build"
    /\ data' = NoData
    /\ UNCHANGED <<n_clicks, current_setpoint, controlChan, sensorChan, lastParsed, published,
                   call, batch>>
    /\ UNCHANGED dashVars

\* the broker hands the next published event to the dashboard's on_message
chan_deliver ==
    /\ sensorChan # <<>>
    /\ on_message(Head(sensorChan))
    /\ sensorChan' = Tail(sensorChan)
    /\ UNCHANGED <<call, batch, n_clicks, current_setpoint, data, ppc, controlChan, lastParsed,
                   published>>

FeedbackNext ==
    \/ update_setpoint
    \/ pub_on_message
    \/ pub_build
    \/ pub_publish
    \/ pub_sleep
    \/ chan_deliver
    \/ mqtt_service_thread /\ PubIdle
    \/ sensor_step /\ PubIdle
    \/ sensor_acquire /\ PubIdle
    \/ sensor_append /\ PubIdle
    \/ sensor_release /\ PubIdle

SpecFeedback ==
    Init /\ [][FeedbackNext]_vars

(***************************************************************************)
(* Claims about the feedback path, checked under SpecFeedback              *)
(***************************************************************************)
\* the results in the history echo the setpoints of the published events, in order
EchoesPublished ==
    /\ Len(stepLog) <= Len(published)
    /\ \A i \in 1..Len(stepLog) : stepLog[i].T_set = published[i].T_set
    /\ \A i \in 1..Len(data_deque) :
          data_deque[i].T_set = published[data_deque[i].timestamp].T_set

\* C7 as stated: every event published after a parseable setpoint s was received, and
\* before the next one, carries T_set = s (24.0 before any), and the history echoes it;
\* an unparseable payload leaves the setpoint unchanged.
C7_PublishedCarriesLatest ==
    /\ \A i \in 1..Len(published) : published[i].T_set = published[i].atPublish
    /\ current_setpoint = lastParsed
    /\ EchoesPublished

\* C7 as amended: every event carries the setpoint last parsed when its data dict was
\* built (24.0 before any), and the history echoes it; an unparseable payload leaves
\* the setpoint unchanged.
C7_BuiltCarriesLatest ==
    /\ \A i \in 1..Len(published) : published[i].T_set = published[i].atBuild
    /\ ppc = "publish" => data.T_set = data.atBuild
    /\ current_setpoint = lastParsed
    /\ EchoesPublished

\* C7 witness: every setpoint message was handled, the setpoint is no longer the
\* default, and an event built after it was stored carries it into the history
C7_SetpointReachedHistory ==
    /\ n_clicks = MaxCtl
    /\ controlChan = <<>>
    /\ lastParsed # 24000
    /\ data_deque # <<>>
    /\ data_deque[Len(data_deque)].T_set = lastParsed
    /\ published[Len(published)].atBuild = lastParsed

====
